---- MODULE Spec2Model ----
(***************************************************************************)
(* Retry / circuit-breaker harness of the RAG chatbot backend              *)
(* (src/src/lib/config.test.ts, the "./retry" module), the services that   *)
(* call through it (src/unnamed/part_003, src/src/lib/llm-service.ts,      *)
(* src/src/lib/vector-store.ts), the document pipeline                     *)
(* (src/unnamed/part_008, src/src/app/api/documents/upload/route.ts) and   *)
(* the query pipeline (src/src/services/chat.service.ts).                  *)
(*                                                                         *)
(* One CircuitBreaker instance is shared by several callers that each run  *)
(* withRetryAndCircuitBreaker on the JavaScript event loop: every          *)
(* synchronous stretch of code between two awaits is one atomic action.    *)
(***************************************************************************)
EXTENDS Integers, Sequences, FiniteSets, TLC

(***************************************************************************)
(* Bounds of the model                                                     *)
(***************************************************************************)
NumCallers == 2
MaxCalls == 3
MaxTime == 2
MaxThreshold == 2
MaxRetryAttempts == 3
MaxRequests == 7
ClockStep == 1000
EmbeddingHorizon == 80000
NumDocs == 2
NumRuns == 2
MaxProcessed == 1
MaxChunks == 1

Callers == 1..NumCallers

(***************************************************************************)
(* CircuitState (enum)                                                     *)
(***************************************************************************)
CLOSED == "closed"
OPEN == "open"
HALF_OPEN == "half_open"

CircuitState == {CLOSED, OPEN, HALF_OPEN}

(***************************************************************************)
(* Default configurations                                                  *)
(***************************************************************************)
DEFAULT_RETRY_CONFIG ==
  [maxAttempts |-> 3, baseDelay |-> 1000, maxDelay |-> 10000, backoffFactor |-> 2]

DEFAULT_CIRCUIT_CONFIG ==
  [failureThreshold |-> 5, resetTimeout |-> 60000, monitoringPeriod |-> 60000]

(* Configurations a caller may pass to the constructor / to withRetry.     *)
CircuitConfigs ==
  [failureThreshold : 1..MaxThreshold, resetTimeout : {2}, monitoringPeriod : {2}]

HarnessRetryConfig ==
  [maxAttempts |-> 2, baseDelay |-> 1, maxDelay |-> 3, backoffFactor |-> 2]

RetryConfigs ==
  [maxAttempts : 1..MaxRetryAttempts, baseDelay : {1, 2}, maxDelay : {2, 3},
   backoffFactor : {2, 3}]

(***************************************************************************)
(* Errors.  An error object is identified by the attempt that raised it    *)
(* (src), so that "the same error" is distinguishable from a copy or a     *)
(* wrapper.                                                                *)
(***************************************************************************)
NoValue == [type |-> "none", msg |-> "", src |-> <<0, 0>>]
OkValue(p) == [type |-> "ok", msg |-> "", src |-> <<p, 0>>]

CircuitOpenMessage == "Circuit breaker is OPEN - service unavailable"

CircuitOpenError(p) == [type |-> "Error", msg |-> CircuitOpenMessage, src |-> <<p, 0>>]

(* What the wrapped operation may throw in the harness specification.      *)
ErrorInputs ==
  { [type |-> "ValidationError", msg |-> "invalid"],
    [type |-> "NotFoundError", msg |-> "missing"],
    [type |-> "Error", msg |-> "network"] }

(* One non-retryable and one retryable error are enough for the breaker.   *)
HarnessErrorInputs == {e \in ErrorInputs : e.type # "NotFoundError"}

RaisedError(e, p, a) == [type |-> e.type, msg |-> e.msg, src |-> <<p, a>>]

IsError(v) == v.type \notin {"none", "ok"}

(***************************************************************************)
(* Pure functions of the retry module                                      *)
(***************************************************************************)
Min(a, b) == IF a < b THEN a ELSE b

RECURSIVE Pow(_, _)
Pow(b, n) == IF n <= 0 THEN 1 ELSE b * Pow(b, n - 1)

shouldRetry_AlwaysRetry(error) == TRUE

shouldRetry(error) ==
  IF error.type = "ValidationError" \/ error.type = "NotFoundError"
  THEN FALSE
  ELSE TRUE

calculateDelay_NoCap(att, cfg) == cfg.baseDelay * Pow(cfg.backoffFactor, att - 1)

calculateDelay(att, cfg) ==
  LET delay == cfg.baseDelay * Pow(cfg.backoffFactor, att - 1)
  IN  Min(delay, cfg.maxDelay)

(* The error withRetry throws when it gives up: the one it just caught.    *)
withRetryThrown_First(caught) == caught[1]

withRetryThrown(caught) == caught[Len(caught)]

(***************************************************************************)
(* CircuitBreaker: a breaker value is [state, stats, nextAttemptTime]      *)
(***************************************************************************)
(* stats: the two counters.  lastFailureTime and lastSuccessTime are        *)
(* written by onSuccess/onFailure/reset and read nowhere in the program;   *)
(* they are left out of the state.                                         *)
InitialStats == [failures |-> 0, successes |-> 0]

isRejected_Never(b, t) == FALSE

isRejected_Inverted(b, t) == b.state = OPEN /\ t > b.nextAttemptTime

(* execute(): the guard that rejects the call.                             *)
isRejected(b, t) == b.state = OPEN /\ t < b.nextAttemptTime

(* execute(): state after an admitted call passed the guard.               *)
admit(b) == IF b.state = OPEN THEN [b EXCEPT !.state = HALF_OPEN] ELSE b

onSuccess_KeepFailures(b, t) ==
  LET s1 == [b.stats EXCEPT !.successes = @ + 1]
  IN  IF b.state = HALF_OPEN
      THEN [b EXCEPT !.state = CLOSED, !.stats = s1]
      ELSE [b EXCEPT !.stats = s1]

onSuccess(b, t) ==
  LET s1 == [b.stats EXCEPT !.successes = @ + 1]
  IN  IF b.state = HALF_OPEN
      THEN [b EXCEPT !.state = CLOSED, !.stats = [s1 EXCEPT !.failures = 0]]
      ELSE [b EXCEPT !.stats = s1]

onFailure_StrictThreshold(b, t, cfg) ==
  LET s1 == [b.stats EXCEPT !.failures = @ + 1]
  IN  IF b.state = HALF_OPEN
      THEN [b EXCEPT !.state = OPEN, !.stats = s1,
                     !.nextAttemptTime = t + cfg.resetTimeout]
      ELSE IF b.state = CLOSED /\ s1.failures > cfg.failureThreshold
      THEN [b EXCEPT !.state = OPEN, !.stats = s1,
                     !.nextAttemptTime = t + cfg.resetTimeout]
      ELSE [b EXCEPT !.stats = s1]

onFailure(b, t, cfg) ==
  LET s1 == [b.stats EXCEPT !.failures = @ + 1]
  IN  IF b.state = HALF_OPEN
      THEN [b EXCEPT !.state = OPEN, !.stats = s1,
                     !.nextAttemptTime = t + cfg.resetTimeout]
      ELSE IF b.state = CLOSED /\ s1.failures >= cfg.failureThreshold
      THEN [b EXCEPT !.state = OPEN, !.stats = s1,
                     !.nextAttemptTime = t + cfg.resetTimeout]
      ELSE [b EXCEPT !.stats = s1]

reset == [state |-> CLOSED, stats |-> InitialStats, nextAttemptTime |-> 0]

(***************************************************************************)
(* Documents (prisma.document rows) and processDocument runs               *)
(***************************************************************************)
DocIds == 1..NumDocs
Runs == 1..NumRuns

SUPPORTED_FILE_TYPES == {"pdf", "docx", "txt"}
FileTypes == SUPPORTED_FILE_TYPES \cup {"url"}

(* All documents of the model belong to one project.                       *)
ProjectIds == {"p1"}

DocumentStatus == {"pending", "processing", "ready", "failed"}

(* findUnique returns null for a row whose status is "absent".  nChunks is  *)
(* the number of chunks the splitter yields for the document's text.       *)
NoDocument ==
  [status |-> "absent", errorMessage |-> "", fileType |-> "", projectId |-> "",
   nChunks |-> 0]

(* `project_${document.projectId}`                                         *)
collectionName(projectId) == <<"project_", projectId>>

(* similaritySearch: this.client.getCollection({ name: projectId })        *)
searchCollectionName(projectId) == <<projectId>>

(* deleteProject: const collectionName = `project_${id}`                   *)
deleteCollectionName(id) == <<"project_", id>>

DocError(type, msg) == [type |-> type, msg |-> msg]
NoError == DocError("none", "")

(* One processDocument call: where it is, what it was called with, the     *)
(* error on its way to the outer catch, how it ended, and what it did;     *)
(* storeError is what the ChromaDB call that failed answered.              *)
NoRun ==
  [pc |-> "idle", doc |-> 0, buffer |-> FALSE, err |-> NoError,
   outcome |-> "none", extractCalls |-> 0, chunkCalls |-> 0, embedCalls |-> 0,
   storeCalls |-> 0, statusWrites |-> 0, failedWrites |-> 0,
   failedStage |-> "none", failedCall |-> "none", storeError |-> "none"]

(***************************************************************************)
(* ChatService.processQuery and the model settings of LLMService.  Scores, *)
(* thresholds and temperatures are counted in hundredths.  A text is known *)
(* by the chunk whose words it holds (0: no chunk's), the number of        *)
(* characters of those words and the number of whitespace characters on    *)
(* each side of them; a string is a sequence of such pieces.               *)
(***************************************************************************)
One == 100
topK == 5
maxContextTokens == 3000
maxContextChars == maxContextTokens * 4
maxTemperature == 30

Text(chunk, chars, space) == [chunk |-> chunk, chars |-> chars, space |-> space]

(* "\n\n"                                                                  *)
BlankLine == Text(0, 0, 1)

(* "No relevant context found."                                            *)
NoRelevantContext == <<Text(0, 26, 0)>>

trim_Keep(text) == text

(* String.prototype.trim                                                   *)
trim(text) == [text EXCEPT !.space = 0]

TextLength(text) == text.chars + 2 * text.space

RECURSIVE StringLength(_)
StringLength(str) ==
  IF str = <<>> THEN 0 ELSE TextLength(Head(str)) + StringLength(Tail(str))

RECURSIVE assembleLoop_SkipOversized(_, _, _, _)
assembleLoop_SkipOversized(searchResults, i, context, includedChunks) ==
  IF i > Len(searchResults)
  THEN [context |-> context, includedChunks |-> includedChunks]
  ELSE LET chunkText == trim(searchResults[i].text)
       IN  IF TextLength(chunkText) = 0
           THEN assembleLoop_SkipOversized(searchResults, i + 1, context,
                                           includedChunks)
           ELSE LET newContext == IF context # <<>>
                                  THEN context \o <<BlankLine, chunkText>>
                                  ELSE <<chunkText>>
                IN  IF StringLength(newContext) > maxContextChars
                    THEN assembleLoop_SkipOversized(searchResults, i + 1, context,
                                                    includedChunks)
                    ELSE assembleLoop_SkipOversized(searchResults, i + 1,
                                                    newContext, includedChunks + 1)

(* The loop of assembleContext from result i on, with its two locals.      *)
RECURSIVE assembleLoop(_, _, _, _)
assembleLoop(searchResults, i, context, includedChunks) ==
  IF i > Len(searchResults)
  THEN [context |-> context, includedChunks |-> includedChunks]
  ELSE LET chunkText == trim(searchResults[i].text)
       IN  IF TextLength(chunkText) = 0
           THEN assembleLoop(searchResults, i + 1, context, includedChunks)
           ELSE LET newContext == IF context # <<>>
                                  THEN context \o <<BlankLine, chunkText>>
                                  ELSE <<chunkText>>
                IN  IF StringLength(newContext) > maxContextChars
                    THEN [context |-> context, includedChunks |-> includedChunks]
                    ELSE assembleLoop(searchResults, i + 1, newContext,
                                      includedChunks + 1)

(* assembleContext returns the string only; includedChunks is dropped.     *)
assembleContext(searchResults) ==
  LET end == assembleLoop(searchResults, 1, <<>>, 0)
  IN  IF end.context # <<>> THEN end.context ELSE NoRelevantContext

(* What the similarity search can hand over: at most topK results, result  *)
(* i holding chunk i, sorted by score (1 - distance) in descending order.  *)
CharCounts == {0, 1000, 5999, 12001}
TextShapes == [chars : CharCounts, space : {0, 1}]

MakeResults(top, shape) ==
  [i \in DOMAIN shape |->
     [id |-> i, text |-> Text(i, shape[i].chars, shape[i].space),
      score |-> top - (i - 1)]]

ResultShapes == UNION {[1..n -> TextShapes] : n \in 0..topK}

(* The texts the language model can answer: words with or without          *)
(* whitespace around them.                                                 *)
LlmTexts == [words : {"grounded answer", "I don't know"}, space : {0, 1}]
NoText == [words |-> "", space |-> 0]

(* The response of the relevance gate.                                     *)
Refusal == [words |-> "I don't know", space |-> 0]

(* getConfig(): the settings processQuery and LLMService read.             *)
Providers == {"gemini", "local"}
DefaultAppConfig ==
  [relevanceThreshold |-> 75, provider |-> "gemini", temperature |-> 30]

(* LLMService before its first call; passed collects the temperature of    *)
(* every request made to the language model.                               *)
NoModel == [built |-> FALSE, temperature |-> 0]
InitialLLMService == [model |-> NoModel, isLocalProvider |-> FALSE, passed |-> {}]

(* result.content of model.invoke: a string, or an array of content parts. *)
LlmContents ==
  [kind : {"string"}, text : LlmTexts] \cup
  {[kind |-> "parts", text |-> [words |-> "grounded answer", space |-> 0]]}
NoContent == [kind |-> "none", text |-> NoText]

(* String(result.content) of an array of parts                             *)
ObjectString == [words |-> "[object Object]", space |-> 0]

responseText_Trimmed(content) ==
  IF content.kind = "string" THEN [content.text EXCEPT !.space = 0] ELSE ObjectString

(* typeof result.content === "string" ? result.content                     *)
(*                                    : String(result.content)             *)
responseText(content) ==
  IF content.kind = "string" THEN content.text ELSE ObjectString

(***************************************************************************)
(* TextChunker (text-chunker.ts).  A text is its length in characters; a   *)
(* ChunkMetadata is a record of documentId, filename and any other fields. *)
(***************************************************************************)
chunkSize == 1000
chunkOverlap == 200

(* RecursiveCharacterTextSplitter.splitText on a text without separators:  *)
(* no piece for the empty text, else pieces of at most chunkSize           *)
(* characters, each starting chunkOverlap before the end of the last.      *)
RECURSIVE splitText(_)
splitText(text) ==
  IF text = 0 THEN <<>>
  ELSE IF text <= chunkSize THEN <<text>>
  ELSE <<chunkSize>> \o splitText(text - (chunkSize - chunkOverlap))

chunkMetadata_Rebuilt(metadata, index) ==
  [documentId |-> metadata.documentId, filename |-> metadata.filename,
   chunkIndex |-> index]

(* { ...metadata, chunkIndex: index }                                      *)
chunkMetadata(metadata, index) ==
  [f \in DOMAIN metadata \cup {"chunkIndex"} |->
     IF f = "chunkIndex" THEN index ELSE metadata[f]]

(* textChunks.map((chunkText, index) => ({ text, metadata })), the index   *)
(* counted from zero.                                                      *)
chunkText(text, metadata) ==
  LET textChunks == splitText(text)
  IN  [i \in 1..Len(textChunks) |->
         [text |-> textChunks[i], metadata |-> chunkMetadata(metadata, i - 1)]]

TextLengths == {0, 21, chunkSize, chunkSize + 1, 2500, 5000}

RequiredFields == [documentId : {"doc-1", "doc-2"}, filename : {"a.txt", "b.pdf"}]

ExtraFields ==
  {[customField |-> "custom value"],
   [customField |-> "custom value", pageNumber |-> 42],
   [chunkIndex |-> 7]}

ChunkMetadatas ==
  RequiredFields \cup {m @@ x : m \in RequiredFields, x \in ExtraFields}

NoChunker ==
  [pc |-> "idle", text |-> 0,
   metadata |-> [documentId |-> "doc-1", filename |-> "a.txt"], chunks |-> <<>>]

(* One processQuery call: where it is, whether the search has answered,    *)
(* what it assembled and returned, and what the language model was asked   *)
(* and answered on its behalf.                                             *)
(* request is the ChatRequest it was given, called the collaborators it    *)
(* has called so far, queryResult what collection.query resolved with and  *)
(* aborted whether the client has abandoned the HTTP request.              *)
NoRequest == [projectId |-> Text(0, 0, 0), message |-> Text(0, 0, 0)]

NoQuery ==
  [pc |-> "idle", request |-> NoRequest, called |-> {}, queryResult |-> <<>>,
   aborted |-> FALSE,
   searched |-> FALSE, context |-> <<>>, includedChunks |-> 0,
   llmContent |-> NoContent, response |-> NoText, llmInvocations |-> 0,
   failedAttempts |-> 0,
   answer |-> NoText, sourceCount |-> 0, outcome |-> "none", err |-> NoError]

(* searchResults.length > 0 ? searchResults[0].score : 0                   *)
highestScore(searchResults) ==
  IF Len(searchResults) > 0 THEN searchResults[1].score ELSE 0

relevanceThreshold_Default(cfg) == DefaultAppConfig.relevanceThreshold

(* this.config.processing.relevanceThreshold                               *)
relevanceThreshold(cfg) == cfg.relevanceThreshold

(* initializeModel: the gemini model is built once, with the temperature   *)
(* fixed at construction, and reused; the local provider builds nothing.   *)
initializeModel(svc, cfg) ==
  IF cfg.provider = "gemini"
  THEN IF svc.model.built
       THEN svc
       ELSE [svc EXCEPT !.model = [built |-> TRUE,
                                   temperature |-> Min(cfg.temperature, maxTemperature)],
                        !.isLocalProvider = FALSE]
  ELSE [svc EXCEPT !.isLocalProvider = TRUE]

requestTemperature_Unclamped(svc, cfg) ==
  IF svc.isLocalProvider THEN cfg.temperature ELSE svc.model.temperature

(* The temperature of one request: callLocalLLM's request body, or the     *)
(* setting of the model that model.invoke is called on.                    *)
requestTemperature(svc, cfg) ==
  IF svc.isLocalProvider
  THEN Min(cfg.temperature, maxTemperature)
  ELSE svc.model.temperature

(* The function generateResponse hands to withRetryAndCircuitBreaker, up   *)
(* to the request it sends.                                                *)
invokeModel(svc, cfg) ==
  LET ready == initializeModel(svc, cfg)
  IN  [ready EXCEPT !.passed = @ \cup {requestTemperature(ready, cfg)}]

(* Every configuration loadConfig accepts for the LLM.                     *)
LlmConfigs ==
  [relevanceThreshold : {DefaultAppConfig.relevanceThreshold},
   provider : Providers, temperature : 0..One]

(***************************************************************************)
(* State                                                                   *)
(***************************************************************************)
VARIABLES
  docs,             \* prisma.document: the row of each document id
  statusLog,        \* every value the status column of each row has held
  collections,      \* names of the collections that exist in ChromaDB
  entries,          \* the records held by the collections: name and chunk id
  run,              \* the processDocument calls
  query,            \* the processQuery call
  searchResults,    \* what similaritySearch returned to it
  appConfig,        \* getConfig()
  llmService,       \* LLMService.model, isLocalProvider and the requests made
  chunker,          \* the chunkText call: its arguments and what it returned
  state,            \* CircuitBreaker.state
  stats,            \* CircuitBreaker.stats
  nextAttemptTime,  \* CircuitBreaker.nextAttemptTime
  config,           \* CircuitBreaker.config
  retryConfig,      \* withRetry's retryConfig
  now,              \* Date.now()
  pc,               \* where each caller is in withRetryAndCircuitBreaker
  attempt,          \* withRetry's loop variable
  wakeAt,           \* when the pending setTimeout may fire
  calls,            \* invocations of fn made by the caller's current call
  waits,            \* delays the current call has slept for
  caught,           \* errors the current call's attempts raised
  result,           \* what the current call returned or threw
  admitted,         \* breaker state the current call was admitted under
  thrown,           \* what the service method around the call threw
  service,          \* which service's breaker and catch block the calls use
  started,          \* calls begun so far
  failedCalls,      \* execute() calls that ended in onFailure so far
  fifthFailureAt    \* time at which failedCalls reached the threshold

harnessVars ==
  <<state, stats, nextAttemptTime, config, retryConfig, now, pc, attempt,
    wakeAt, calls, waits, caught, result, admitted, thrown, service,
    started, failedCalls, fifthFailureAt>>

docVars == <<docs, statusLog, collections, entries, run>>

chatVars == <<query, searchResults, appConfig, llmService, chunker>>

vars == <<harnessVars, docVars, chatVars>>

breakerVars == <<state, stats, nextAttemptTime>>
callVars == <<pc, attempt, wakeAt, calls, waits, caught, result, admitted>>
historyVars == <<failedCalls, fifthFailureAt>>

Breaker == [state |-> state, stats |-> stats, nextAttemptTime |-> nextAttemptTime]

SetBreaker(b) ==
  /\ state' = b.state
  /\ stats' = b.stats
  /\ nextAttemptTime' = b.nextAttemptTime

InitDocs ==
  /\ docs = [d \in DocIds |-> NoDocument]
  /\ statusLog = [d \in DocIds |-> <<>>]
  /\ collections = {}
  /\ entries = {}
  /\ run = [r \in Runs |-> NoRun]

InitChatService ==
  /\ chunker = NoChunker
  /\ query = NoQuery
  /\ searchResults = <<>>
  /\ llmService = InitialLLMService

InitChat ==
  /\ InitChatService
  /\ appConfig = DefaultAppConfig

InitBreaker ==
  /\ state = CLOSED
  /\ stats = InitialStats
  /\ nextAttemptTime = 0
  /\ now = 0
  /\ pc = [p \in Callers |-> "idle"]
  /\ attempt = [p \in Callers |-> 0]
  /\ wakeAt = [p \in Callers |-> 0]
  /\ calls = [p \in Callers |-> 0]
  /\ waits = [p \in Callers |-> <<>>]
  /\ caught = [p \in Callers |-> <<>>]
  /\ result = [p \in Callers |-> NoValue]
  /\ admitted = [p \in Callers |-> "none"]
  /\ thrown = [p \in Callers |-> NoValue]
  /\ started = 0
  /\ failedCalls = 0
  /\ fifthFailureAt = 0

InitCommon ==
  /\ InitDocs
  /\ InitChat
  /\ InitBreaker

Init ==
  /\ InitCommon
  /\ service = "none"
  /\ config \in CircuitConfigs
  /\ retryConfig = HarnessRetryConfig

(***************************************************************************)
(* withRetryAndCircuitBreaker, step by step                                *)
(***************************************************************************)

(* execute() up to the first await: reject, or admit and invoke fn (the    *)
(* first attempt of withRetry) synchronously.                              *)
ExecuteCore(p) ==
  /\ pc[p] = "idle"
  /\ IF isRejected(Breaker, now)
     THEN /\ pc' = [pc EXCEPT ![p] = "done"]
          /\ result' = [result EXCEPT ![p] = CircuitOpenError(p)]
          /\ admitted' = [admitted EXCEPT ![p] = "rejected"]
          /\ UNCHANGED <<breakerVars, attempt, calls>>
     ELSE /\ SetBreaker(admit(Breaker))
          /\ pc' = [pc EXCEPT ![p] = "inflight"]
          /\ attempt' = [attempt EXCEPT ![p] = 1]
          /\ calls' = [calls EXCEPT ![p] = 1]
          /\ admitted' = [admitted EXCEPT ![p] = IF state = OPEN THEN "trial" ELSE state]
          /\ UNCHANGED result
  /\ started' = started + 1
  /\ UNCHANGED <<docVars, service, config, retryConfig, now, wakeAt, waits, caught, historyVars>>

(* fn resolves: withRetry returns, execute() runs onSuccess.               *)
SucceedCore(p) ==
  /\ pc[p] = "inflight"
  /\ SetBreaker(onSuccess(Breaker, now))
  /\ pc' = [pc EXCEPT ![p] = "done"]
  /\ result' = [result EXCEPT ![p] = OkValue(p)]
  /\ UNCHANGED <<docVars, service, config, retryConfig, now, attempt, wakeAt, calls, waits, caught,
                 admitted, started, historyVars>>

FailCore_CountEveryAttempt(p, e) ==
  /\ pc[p] = "inflight"
  /\ LET error == RaisedError(e, p, attempt[p])
         seen == Append(caught[p], error)
     IN  /\ caught' = [caught EXCEPT ![p] = seen]
         /\ SetBreaker(onFailure(Breaker, now, config))
         /\ IF ~shouldRetry(error) \/ attempt[p] = retryConfig.maxAttempts
            THEN /\ pc' = [pc EXCEPT ![p] = "done"]
                 /\ result' = [result EXCEPT ![p] = withRetryThrown(seen)]
                 /\ UNCHANGED <<waits, wakeAt>>
            ELSE LET delay == calculateDelay(attempt[p], retryConfig)
                 IN  /\ waits' = [waits EXCEPT ![p] = Append(@, delay)]
                     /\ wakeAt' = [wakeAt EXCEPT ![p] = now + delay]
                     /\ pc' = [pc EXCEPT ![p] = "sleeping"]
                     /\ UNCHANGED result
  /\ UNCHANGED <<docVars, service, config, retryConfig, now, attempt, calls, admitted, started>>

(* fn rejects with e: withRetry's catch block, and execute()'s catch block *)
(* when withRetry gives up.                                                *)
FailCore(p, e) ==
  /\ pc[p] = "inflight"
  /\ LET error == RaisedError(e, p, attempt[p])
         seen == Append(caught[p], error)
     IN  /\ caught' = [caught EXCEPT ![p] = seen]
         /\ IF ~shouldRetry(error) \/ attempt[p] = retryConfig.maxAttempts
            THEN LET b == onFailure(Breaker, now, config)
                 IN  /\ SetBreaker(b)
                     /\ pc' = [pc EXCEPT ![p] = "done"]
                     /\ result' = [result EXCEPT ![p] = withRetryThrown(seen)]
                     /\ UNCHANGED <<waits, wakeAt>>
            ELSE LET delay == calculateDelay(attempt[p], retryConfig)
                 IN  /\ waits' = [waits EXCEPT ![p] = Append(@, delay)]
                     /\ wakeAt' = [wakeAt EXCEPT ![p] = now + delay]
                     /\ pc' = [pc EXCEPT ![p] = "sleeping"]
                     /\ UNCHANGED <<breakerVars, result>>
  /\ UNCHANGED <<docVars, service, config, retryConfig, now, attempt, calls, admitted, started>>

(* The setTimeout fires: next loop iteration, fn is invoked again.         *)
WakeCore(p) ==
  /\ pc[p] = "sleeping"
  /\ now >= wakeAt[p]
  /\ pc' = [pc EXCEPT ![p] = "inflight"]
  /\ attempt' = [attempt EXCEPT ![p] = @ + 1]
  /\ calls' = [calls EXCEPT ![p] = @ + 1]
  /\ UNCHANGED <<docVars, breakerVars, service, config, retryConfig, now, wakeAt, waits, caught,
                 result, admitted, thrown, started, historyVars>>

(* The caller has consumed the outcome and may make another call.          *)
ReturnCore(p) ==
  /\ pc[p] = "done"
  /\ pc' = [pc EXCEPT ![p] = "idle"]
  /\ attempt' = [attempt EXCEPT ![p] = 0]
  /\ wakeAt' = [wakeAt EXCEPT ![p] = 0]
  /\ calls' = [calls EXCEPT ![p] = 0]
  /\ waits' = [waits EXCEPT ![p] = <<>>]
  /\ caught' = [caught EXCEPT ![p] = <<>>]
  /\ result' = [result EXCEPT ![p] = NoValue]
  /\ admitted' = [admitted EXCEPT ![p] = "none"]
  /\ thrown' = [thrown EXCEPT ![p] = NoValue]
  /\ UNCHANGED <<docVars, breakerVars, service, config, retryConfig, now, started, historyVars>>

Wake(p) == WakeCore(p) /\ UNCHANGED chatVars

Return(p) == ReturnCore(p) /\ UNCHANGED chatVars

(***************************************************************************)
(* Harness specification: callers use withRetryAndCircuitBreaker directly  *)
(***************************************************************************)
Execute(p) ==
  /\ started < MaxCalls
  /\ ExecuteCore(p)
  /\ UNCHANGED <<thrown, chatVars>>

AttemptSucceeds(p) == SucceedCore(p) /\ UNCHANGED <<thrown, chatVars>>

AttemptFails(p, e) == FailCore(p, e) /\ UNCHANGED <<thrown, historyVars, chatVars>>

(* Date.now() advances.  The clock stops at MaxTime unless a backoff timer  *)
(* is still pending.                                                       *)
Tick ==
  /\ \/ now < MaxTime
     \/ \E p \in Callers : pc[p] = "sleeping" /\ wakeAt[p] > now
  /\ now' = now + 1
  /\ UNCHANGED <<docVars, chatVars, breakerVars, service, config, retryConfig, callVars,
                 thrown, started, historyVars>>

Next ==
  \/ \E p \in Callers : Execute(p)
  \/ \E p \in Callers : AttemptSucceeds(p)
  \/ \E p \in Callers, e \in HarnessErrorInputs : AttemptFails(p, e)
  \/ \E p \in Callers : Wake(p)
  \/ \E p \in Callers : Return(p)
  \/ Tick

Spec == Init /\ [][Next]_vars

(***************************************************************************)
(* Retry specification: one caller, every retry configuration              *)
(***************************************************************************)
InitRetry ==
  /\ InitCommon
  /\ service = "none"
  /\ config \in CircuitConfigs
  /\ retryConfig \in RetryConfigs

NextRetry ==
  \/ Execute(1)
  \/ AttemptSucceeds(1)
  \/ \E e \in ErrorInputs : AttemptFails(1, e)
  \/ Wake(1)
  \/ Return(1)
  \/ Tick

SpecRetry == InitRetry /\ [][NextRetry]_vars

(***************************************************************************)
(* EmbeddingService.generateEmbedding over a collaborator that fails on    *)
(* every call, with the default breaker and retry configurations           *)
(***************************************************************************)
MsgIncludes(msg, marker) ==
  CASE marker = "Circuit breaker is OPEN" -> msg = CircuitOpenMessage
    [] marker = "quota" -> msg = "quota exceeded"
    [] marker = "timeout" -> msg = "request timeout"
    [] marker = "connection" -> msg = "connection refused"
    [] marker = "unreachable" -> msg = "host unreachable"
    [] OTHER -> FALSE

(* What the embedding endpoint / client throws.                            *)
EmbeddingErrorInputs ==
  { [type |-> "LLMError", msg |-> "Local embedding request failed"],
    [type |-> "Error", msg |-> "quota exceeded"] }

(* The catch block of generateEmbedding.                                   *)
generateEmbeddingCatch(error) ==
  IF MsgIncludes(error.msg, "Circuit breaker is OPEN")
  THEN [type |-> "ServiceUnavailableError",
        msg |-> "Embedding service temporarily unavailable", src |-> error.src]
  ELSE IF MsgIncludes(error.msg, "quota")
  THEN [type |-> "QuotaExceededError", msg |-> "Embedding API quota exceeded",
        src |-> error.src]
  ELSE IF MsgIncludes(error.msg, "timeout")
  THEN [type |-> "TimeoutError", msg |-> "Embedding request timed out",
        src |-> error.src]
  ELSE [type |-> "LLMError", msg |-> "Failed to generate embedding",
        src |-> error.src]

InitEmbedding ==
  /\ InitCommon
  /\ service = "embedding"
  /\ config = DEFAULT_CIRCUIT_CONFIG
  /\ retryConfig = DEFAULT_RETRY_CONFIG

GenerateEmbedding(p) ==
  /\ started < MaxRequests
  /\ ExecuteCore(p)
  /\ UNCHANGED chatVars
  /\ thrown' = [thrown EXCEPT ![p] =
                  IF IsError(result'[p]) THEN generateEmbeddingCatch(result'[p]) ELSE @]

EmbeddingFails(p, e) ==
  /\ FailCore(p, e)
  /\ UNCHANGED chatVars
  /\ thrown' = [thrown EXCEPT ![p] =
                  IF IsError(result'[p]) THEN generateEmbeddingCatch(result'[p]) ELSE @]
  /\ failedCalls' = IF pc'[p] = "done" THEN failedCalls + 1 ELSE failedCalls
  /\ fifthFailureAt' =
       IF pc'[p] = "done" /\ failedCalls + 1 = config.failureThreshold
       THEN now ELSE fifthFailureAt

TickEmbedding ==
  /\ now < EmbeddingHorizon
  /\ now' = now + ClockStep
  /\ UNCHANGED <<docVars, chatVars, breakerVars, service, config, retryConfig, callVars,
                 thrown, started, historyVars>>

(* The requests of the scenario are made one after the other.              *)
NextEmbedding ==
  \/ GenerateEmbedding(1)
  \/ \E e \in EmbeddingErrorInputs : EmbeddingFails(1, e)
  \/ Wake(1)
  \/ Return(1)
  \/ TickEmbedding

SpecEmbedding == InitEmbedding /\ [][NextEmbedding]_vars

(***************************************************************************)
(* The three guarded services: EmbeddingService, LLMService and            *)
(* VectorStore each own one CircuitBreaker and wrap every guarded method   *)
(* in withRetryAndCircuitBreaker followed by a catch block that translates *)
(* the error.  One behaviour follows one service and its breaker.          *)
(***************************************************************************)
Services == {"embedding", "llm", "vectorStore"}

generateResponseCatch_Generic(error) ==
  IF MsgIncludes(error.msg, "quota")
  THEN [type |-> "QuotaExceededError", msg |-> "LLM API quota exceeded",
        src |-> error.src]
  ELSE IF MsgIncludes(error.msg, "timeout")
  THEN [type |-> "TimeoutError", msg |-> "LLM request timed out", src |-> error.src]
  ELSE [type |-> "LLMError", msg |-> "Failed to generate response",
        src |-> error.src]

(* The catch block of LLMService.generateResponse.                         *)
generateResponseCatch(error) ==
  IF MsgIncludes(error.msg, "Circuit breaker is OPEN")
  THEN [type |-> "ServiceUnavailableError",
        msg |-> "LLM service temporarily unavailable", src |-> error.src]
  ELSE IF MsgIncludes(error.msg, "quota")
  THEN [type |-> "QuotaExceededError", msg |-> "LLM API quota exceeded",
        src |-> error.src]
  ELSE IF MsgIncludes(error.msg, "timeout")
  THEN [type |-> "TimeoutError", msg |-> "LLM request timed out", src |-> error.src]
  ELSE [type |-> "LLMError", msg |-> "Failed to generate response",
        src |-> error.src]

(* The catch block shared by VectorStore.createCollection, addDocuments    *)
(* and similaritySearch.                                                   *)
vectorStoreCatch(error) ==
  IF \/ MsgIncludes(error.msg, "Circuit breaker is OPEN")
     \/ MsgIncludes(error.msg, "connection")
     \/ MsgIncludes(error.msg, "unreachable")
  THEN [type |-> "ServiceUnavailableError",
        msg |-> "Vector store connection failed", src |-> error.src]
  ELSE [type |-> "VectorStoreError", msg |-> "Vector store operation failed",
        src |-> error.src]

serviceCatch(svc, error) ==
  CASE svc = "embedding" -> generateEmbeddingCatch(error)
    [] svc = "llm" -> generateResponseCatch(error)
    [] svc = "vectorStore" -> vectorStoreCatch(error)

(* What the provider behind each service throws.                           *)
ServiceErrorInputs(svc) ==
  CASE svc = "embedding" -> EmbeddingErrorInputs
    [] svc = "llm" -> { [type |-> "Error", msg |-> "request timeout"],
                        [type |-> "Error", msg |-> "network"] }
    [] svc = "vectorStore" -> { [type |-> "Error", msg |-> "connection refused"],
                                [type |-> "Error", msg |-> "network"] }

InitServices ==
  /\ InitCommon
  /\ service \in Services
  /\ config \in CircuitConfigs
  /\ retryConfig = HarnessRetryConfig

ServiceCall(p) ==
  /\ started < MaxCalls
  /\ ExecuteCore(p)
  /\ UNCHANGED chatVars
  /\ thrown' = [thrown EXCEPT ![p] =
                  IF IsError(result'[p]) THEN serviceCatch(service, result'[p]) ELSE @]

ServiceCallSucceeds(p) == SucceedCore(p) /\ UNCHANGED <<thrown, chatVars>>

ServiceCallFails(p, e) ==
  /\ FailCore(p, e)
  /\ UNCHANGED chatVars
  /\ thrown' = [thrown EXCEPT ![p] =
                  IF IsError(result'[p]) THEN serviceCatch(service, result'[p]) ELSE @]
  /\ UNCHANGED historyVars

NextServices ==
  \/ ServiceCall(1)
  \/ ServiceCallSucceeds(1)
  \/ \E e \in ServiceErrorInputs(service) : ServiceCallFails(1, e)
  \/ Wake(1)
  \/ Return(1)
  \/ Tick

SpecServices == InitServices /\ [][NextServices]_vars

(***************************************************************************)
(* DocumentService (src/unnamed/part_008).  A processDocument call is a    *)
(* run; each action below is the completion of one await together with the *)
(* synchronous code up to the next await.  The metadata store itself does  *)
(* not fail: prisma calls always resolve.                                  *)
(***************************************************************************)
SetRun(r, rec) == run' = [run EXCEPT ![r] = rec]

(* prisma.document.update({data: {status}}): errorMessage is left alone.   *)
UpdateStatus(d, st) ==
  /\ docs' = [docs EXCEPT ![d].status = st]
  /\ statusLog' = [statusLog EXCEPT ![d] = Append(@, st)]

(* prisma.document.update({data: {status: "failed", errorMessage}})        *)
UpdateFailed(d, msg) ==
  /\ docs' = [docs EXCEPT ![d].status = "failed", ![d].errorMessage = msg]
  /\ statusLog' = [statusLog EXCEPT ![d] = Append(@, "failed")]

(* uploadDocument / uploadUrl: the row is created with status "pending".   *)
(* The id is generated by the database: it is the next unused one, and no  *)
(* earlier call has named it.                                              *)
CreateDocument(d, ft, n) ==
  /\ docs[d].status = "absent"
  /\ \A q \in Runs : run[q].doc # d
  /\ \A c \in DocIds :
       c < d => (docs[c].status # "absent" \/ \E q \in Runs : run[q].doc = c)
  /\ docs' = [docs EXCEPT ![d] =
                [status |-> "pending", errorMessage |-> "", fileType |-> ft,
                 projectId |-> CHOOSE pj \in ProjectIds : TRUE, nChunks |-> n]]
  /\ statusLog' = [statusLog EXCEPT ![d] = <<"pending">>]

(* processDocument(d, fileBuffer) up to its first await (findUnique).      *)
(* Runs are numbered in the order in which the calls are made.             *)
ProcessDocumentCore(r, d, buf) ==
  /\ run[r].pc = "idle"
  /\ \A q \in Runs : q < r => run[q].pc # "idle"
  /\ SetRun(r, [NoRun EXCEPT !.pc = "find", !.doc = d, !.buffer = buf])

FindResolves_NoCheck(r) ==
  /\ run[r].pc = "find"
  /\ SetRun(r, [run[r] EXCEPT !.pc = "setProcessing"])
  /\ UNCHANGED <<docs, statusLog, collections, entries, harnessVars, chatVars>>

(* findUnique resolved: NotFoundError for a missing row, else the update   *)
(* to "processing" is issued.                                              *)
FindResolves(r) ==
  /\ run[r].pc = "find"
  /\ IF docs[run[r].doc].status = "absent"
     THEN SetRun(r, [run[r] EXCEPT !.pc = "catchFind",
                       !.err = DocError("NotFoundError", "Document not found")])
     ELSE SetRun(r, [run[r] EXCEPT !.pc = "setProcessing"])
  /\ UNCHANGED <<docs, statusLog, collections, entries, harnessVars, chatVars>>

extractFailedMessage == "Text extraction failed"
embedFailedMessage == "Embedding generation failed"
storeFailedMessage == "Vector storage failed"
noChunksMessage == "No text chunks generated from document"
processingFailedMessage == "Processing failed"

(* The status is "processing"; step 1 starts: the extractor is called, or  *)
(* the missing file buffer raises a ValidationError inside the try block.  *)
SetProcessingResolves(r) ==
  /\ run[r].pc = "setProcessing"
  /\ UpdateStatus(run[r].doc, "processing")
  /\ IF docs[run[r].doc].fileType # "url" /\ ~run[r].buffer
     THEN SetRun(r, [run[r] EXCEPT !.pc = "extractFailedWrite",
                       !.statusWrites = @ + 1,
                       !.failedStage = "extract",
                       !.err = DocError("ValidationError",
                                        "File buffer is required for file documents")])
     ELSE SetRun(r, [run[r] EXCEPT !.pc = "extract", !.statusWrites = @ + 1,
                                   !.extractCalls = @ + 1])
  /\ UNCHANGED <<collections, entries, harnessVars, chatVars>>

(* extractFromUrl / extractFromPdf / extractFromDocx / extractFromTxt      *)
(* settled.                                                                *)
ExtractResolves(r, ok) ==
  /\ run[r].pc = "extract"
  /\ IF ok
     THEN SetRun(r, [run[r] EXCEPT !.pc = "chunk", !.chunkCalls = @ + 1])
     ELSE SetRun(r, [run[r] EXCEPT !.pc = "extractFailedWrite",
                       !.failedStage = "extract", !.failedCall = "extractor",
                       !.err = DocError("Error", "extraction failed")])
  /\ UNCHANGED <<docs, statusLog, collections, entries, harnessVars, chatVars>>

ChunkResolves_EmbedEmpty(r) ==
  /\ run[r].pc = "chunk"
  /\ SetRun(r, [run[r] EXCEPT !.pc = "embed", !.embedCalls = @ + 1])
  /\ UNCHANGED <<docs, statusLog, collections, entries, harnessVars, chatVars>>

(* chunkText settled: zero chunks issue the "failed" update, otherwise     *)
(* embedDocuments is called on a fresh GoogleGenerativeAIEmbeddings.       *)
ChunkResolves(r) ==
  /\ run[r].pc = "chunk"
  /\ IF docs[run[r].doc].nChunks = 0
     THEN SetRun(r, [run[r] EXCEPT !.pc = "noChunksWrite"])
     ELSE SetRun(r, [run[r] EXCEPT !.pc = "embed", !.embedCalls = @ + 1])
  /\ UNCHANGED <<docs, statusLog, collections, entries, harnessVars, chatVars>>

(* The zero-chunk update resolved; processDocument returns.                *)
NoChunksWriteResolves(r) ==
  /\ run[r].pc = "noChunksWrite"
  /\ UpdateFailed(run[r].doc, noChunksMessage)
  /\ SetRun(r, [run[r] EXCEPT !.pc = "done", !.outcome = "returned",
                              !.statusWrites = @ + 1, !.failedWrites = @ + 1])
  /\ UNCHANGED <<collections, entries, harnessVars, chatVars>>

EmbedResolves_StoreAnyway(r, ok) ==
  /\ run[r].pc = "embed"
  /\ IF ok
     THEN SetRun(r, [run[r] EXCEPT !.pc = "getCollection", !.storeCalls = @ + 1])
     ELSE SetRun(r, [run[r] EXCEPT !.pc = "getCollection", !.storeCalls = @ + 1,
                       !.failedStage = "embed", !.failedCall = "embedding",
                       !.err = DocError("Error", "embedding failed")])
  /\ UNCHANGED <<docs, statusLog, collections, entries, harnessVars, chatVars>>

(* embedDocuments settled: step 4 starts with chromaClient.getCollection.  *)
EmbedResolves(r, ok) ==
  /\ run[r].pc = "embed"
  /\ IF ok
     THEN SetRun(r, [run[r] EXCEPT !.pc = "getCollection", !.storeCalls = @ + 1])
     ELSE SetRun(r, [run[r] EXCEPT !.pc = "embedFailedWrite",
                       !.failedStage = "embed", !.failedCall = "embedding",
                       !.err = DocError("Error", "embedding failed")])
  /\ UNCHANGED <<docs, statusLog, collections, entries, harnessVars, chatVars>>

(* getCollection settled: any rejection leads to createCollection.         *)
GetCollectionResolves(r, ok) ==
  /\ run[r].pc = "getCollection"
  /\ IF ok /\ collectionName(docs[run[r].doc].projectId) \in collections
     THEN SetRun(r, [run[r] EXCEPT !.pc = "add", !.storeCalls = @ + 1])
     ELSE SetRun(r, [run[r] EXCEPT !.pc = "createCollection", !.storeCalls = @ + 1])
  /\ UNCHANGED <<docs, statusLog, collections, entries, harnessVars, chatVars>>

(* createCollection settled: ChromaDB rejects it when the name is taken,    *)
(* and the rejection is caught by the store stage's catch block like any   *)
(* other.                                                                  *)
CreateCollectionResolves(r, ok) ==
  /\ run[r].pc = "createCollection"
  /\ LET name == collectionName(docs[run[r].doc].projectId)
     IN  IF ok /\ name \notin collections
         THEN /\ collections' = collections \cup {name}
              /\ SetRun(r, [run[r] EXCEPT !.pc = "add", !.storeCalls = @ + 1])
         ELSE /\ UNCHANGED collections
              /\ SetRun(r, [run[r] EXCEPT !.pc = "storeFailedWrite",
                              !.failedStage = "store", !.failedCall = "vectorStore",
                              !.storeError = IF ok THEN "alreadyExists"
                                                   ELSE "unreachable",
                              !.err = DocError("Error", "chroma failed")])
  /\ UNCHANGED <<docs, statusLog, entries, harnessVars, chatVars>>

(* ids: chunks.map((chunk, i) => `${documentId}_${i}`)                     *)
chunkIds(d) == {<<d, i>> : i \in 0..(docs[d].nChunks - 1)}

(* The records collection.add sends for document d.                        *)
chunkEntries(d) ==
  {[collection |-> collectionName(docs[d].projectId), id |-> id] : id \in chunkIds(d)}

(* collection.add settled.  add is not upsert: what it does with an id the *)
(* collection already holds is the ChromaDB server's choice, which either  *)
(* rejects the request or leaves the stored records alone and adds the     *)
(* rest.                                                                   *)
AddResolves(r, ok) ==
  /\ run[r].pc = "add"
  /\ \E onDuplicate \in {"reject", "ignore"} :
       LET isDuplicate == chunkEntries(run[r].doc) \cap entries # {}
       IN  IF ok /\ ~(isDuplicate /\ onDuplicate = "reject")
           THEN /\ entries' = entries \cup chunkEntries(run[r].doc)
                /\ SetRun(r, [run[r] EXCEPT !.pc = "setReady"])
           ELSE /\ UNCHANGED entries
                /\ SetRun(r, [run[r] EXCEPT !.pc = "storeFailedWrite",
                                !.failedStage = "store", !.failedCall = "vectorStore",
                                !.storeError = IF ok THEN "duplicateIds"
                                                     ELSE "unreachable",
                                !.err = DocError("Error", "chroma failed")])
  /\ UNCHANGED <<docs, statusLog, collections, harnessVars, chatVars>>

StageCatchResolves_Generic(r) ==
  /\ run[r].pc \in {"extractFailedWrite", "embedFailedWrite", "storeFailedWrite"}
  /\ UpdateFailed(run[r].doc, processingFailedMessage)
  /\ SetRun(r, [run[r] EXCEPT !.pc = "catchFind",
                  !.statusWrites = @ + 1, !.failedWrites = @ + 1,
                  !.err = IF run[r].pc = "storeFailedWrite"
                          THEN DocError("VectorStoreError", "Failed to store vectors")
                          ELSE @])
  /\ UNCHANGED <<collections, entries, harnessVars, chatVars>>

(* The "failed" update of a stage's catch block resolved; the block throws *)
(* (the store stage a new VectorStoreError) and the outer catch issues its *)
(* findUnique.                                                             *)
StageCatchResolves(r) ==
  /\ run[r].pc \in {"extractFailedWrite", "embedFailedWrite", "storeFailedWrite"}
  /\ UpdateFailed(run[r].doc,
       CASE run[r].pc = "extractFailedWrite" -> extractFailedMessage
         [] run[r].pc = "embedFailedWrite" -> embedFailedMessage
         [] run[r].pc = "storeFailedWrite" -> storeFailedMessage)
  /\ SetRun(r, [run[r] EXCEPT !.pc = "catchFind",
                  !.statusWrites = @ + 1, !.failedWrites = @ + 1,
                  !.err = IF run[r].pc = "storeFailedWrite"
                          THEN DocError("VectorStoreError", "Failed to store vectors")
                          ELSE @])
  /\ UNCHANGED <<collections, entries, harnessVars, chatVars>>

(* Step 5: the update to "ready" resolved; processDocument returns.        *)
SetReadyResolves(r) ==
  /\ run[r].pc = "setReady"
  /\ UpdateStatus(run[r].doc, "ready")
  /\ SetRun(r, [run[r] EXCEPT !.pc = "done", !.outcome = "returned",
                              !.statusWrites = @ + 1])
  /\ UNCHANGED <<collections, entries, harnessVars, chatVars>>

(* Outer catch: findUnique resolved.  The error is rethrown, after one     *)
(* more update when the row exists and is not "failed".                    *)
CatchFindResolves(r) ==
  /\ run[r].pc = "catchFind"
  /\ IF docs[run[r].doc].status \notin {"absent", "failed"}
     THEN SetRun(r, [run[r] EXCEPT !.pc = "catchWrite"])
     ELSE SetRun(r, [run[r] EXCEPT !.pc = "done", !.outcome = "threw"])
  /\ UNCHANGED <<docs, statusLog, collections, entries, harnessVars, chatVars>>

(* Outer catch: its update resolved; the error is rethrown.                *)
CatchWriteResolves(r) ==
  /\ run[r].pc = "catchWrite"
  /\ UpdateFailed(run[r].doc, processingFailedMessage)
  /\ SetRun(r, [run[r] EXCEPT !.pc = "done", !.outcome = "threw",
                              !.statusWrites = @ + 1, !.failedWrites = @ + 1])
  /\ UNCHANGED <<collections, entries, harnessVars, chatVars>>

(* The steps of a run that every specification below shares.  The outer    *)
(* catch's own update needs the row to have left "failed" between a        *)
(* stage's catch block and the outer findUnique, which takes a second run  *)
(* on the same document; it is part of NextReprocess only.                 *)
RunSteps(r) ==
  \/ FindResolves(r)
  \/ SetProcessingResolves(r)
  \/ \E ok \in BOOLEAN : ExtractResolves(r, ok)
  \/ ChunkResolves(r)
  \/ NoChunksWriteResolves(r)
  \/ \E ok \in BOOLEAN : EmbedResolves(r, ok)
  \/ \E ok \in BOOLEAN : GetCollectionResolves(r, ok)
  \/ \E ok \in BOOLEAN : CreateCollectionResolves(r, ok)
  \/ \E ok \in BOOLEAN : AddResolves(r, ok)
  \/ StageCatchResolves(r)
  \/ SetReadyResolves(r)
  \/ CatchFindResolves(r)

NoRunInProgress == \A q \in Runs : run[q].pc \in {"idle", "done"}

(***************************************************************************)
(* Document specification: documents are uploaded, and processDocument is  *)
(* called at most once per document id, with or without the file buffer,   *)
(* one call after the other; the first MaxProcessed document ids are used. *)
(***************************************************************************)
Upload(d, ft, n) ==
  /\ NoRunInProgress
  /\ CreateDocument(d, ft, n)
  /\ UNCHANGED <<collections, entries, run, harnessVars, chatVars>>

ProcessDocument(r, d, buf) ==
  /\ NoRunInProgress
  /\ \A q \in Runs : run[q].doc # d
  /\ ProcessDocumentCore(r, d, buf)
  /\ UNCHANGED <<docs, statusLog, collections, entries, harnessVars, chatVars>>

InitDocument ==
  /\ InitCommon
  /\ service = "none"
  /\ config = DEFAULT_CIRCUIT_CONFIG
  /\ retryConfig = DEFAULT_RETRY_CONFIG

NextDocument ==
  \/ \E d \in 1..MaxProcessed, ft \in FileTypes, n \in 0..MaxChunks :
       Upload(d, ft, n)
  \/ \E r \in Runs, d \in 1..MaxProcessed, buf \in BOOLEAN :
       ProcessDocument(r, d, buf)
  \/ \E r \in Runs : RunSteps(r)

SpecDocument == InitDocument /\ [][NextDocument]_vars

(***************************************************************************)
(* Reprocessing specification: processDocument is a public method and may  *)
(* be called again, or concurrently, for a document id.                    *)
(***************************************************************************)
Reprocess(r, d, buf) ==
  /\ ProcessDocumentCore(r, d, buf)
  /\ UNCHANGED <<docs, statusLog, collections, entries, harnessVars, chatVars>>

NextReprocess ==
  \/ \E d \in DocIds, ft \in FileTypes, n \in 0..MaxChunks : Upload(d, ft, n)
  \/ \E r \in Runs, d \in DocIds, buf \in BOOLEAN : Reprocess(r, d, buf)
  \/ \E r \in Runs : RunSteps(r)
  \/ \E r \in Runs : CatchWriteResolves(r)

SpecReprocess == InitDocument /\ [][NextReprocess]_vars

(***************************************************************************)
(* Upload specification: POST /api/documents/upload creates the row and    *)
(* then calls processDocument(document.id), without a file buffer, and     *)
(* swallows whatever it throws.  Requests may overlap.                     *)
(***************************************************************************)
PostUpload(r, d, ft, n) ==
  /\ CreateDocument(d, ft, n)
  /\ ProcessDocumentCore(r, d, FALSE)
  /\ UNCHANGED <<collections, entries, harnessVars, chatVars>>

NextUpload ==
  \/ \E r \in Runs, d \in DocIds, ft \in FileTypes, n \in 0..MaxChunks :
       PostUpload(r, d, ft, n)
  \/ \E r \in Runs : RunSteps(r)

SpecUpload == InitDocument /\ [][NextUpload]_vars

(***************************************************************************)
(* Guarded-dependency specification: processQuery reaches a dependency     *)
(* through its service (ServiceCall and the steps of the call), while the  *)
(* processDocument run for an uploaded url document goes on beside it.     *)
(***************************************************************************)
NextGuarded ==
  \/ NextServices
  \/ \E n \in 0..MaxChunks : Upload(1, "url", n)
  \/ ProcessDocument(1, 1, FALSE)
  \/ RunSteps(1)

SpecGuarded == InitServices /\ [][NextGuarded]_vars

(***************************************************************************)
(* Assembler specification: assembleContext is applied to every ranked     *)
(* result list similaritySearch can hand over.                             *)
(***************************************************************************)
SearchReturns(top, shape) ==
  /\ query.pc = "idle"
  /\ searchResults' = MakeResults(top, shape)
  /\ query' = [query EXCEPT !.pc = "assemble"]
  /\ UNCHANGED <<appConfig, chunker, llmService, harnessVars, docVars>>

AssembleContext ==
  /\ query.pc = "assemble"
  /\ query' = [query EXCEPT !.pc = "assembled",
                  !.context = assembleContext(searchResults),
                  !.includedChunks =
                     assembleLoop(searchResults, 1, <<>>, 0).includedChunks]
  /\ UNCHANGED <<searchResults, appConfig, chunker, llmService, harnessVars, docVars>>

NextAssemble ==
  \/ /\ query.pc = "idle"
     /\ \E shape \in ResultShapes : SearchReturns(One, shape)
  \/ AssembleContext

SpecAssemble == InitDocument /\ [][NextAssemble]_vars

(***************************************************************************)
(* LLM specification: LLMService.generateResponse is called with every     *)
(* temperature and provider the configuration accepts.                     *)
(***************************************************************************)
InitLLM ==
  /\ InitDocs
  /\ InitBreaker
  /\ InitChatService
  /\ appConfig \in LlmConfigs
  /\ service = "llm"
  /\ config = DEFAULT_CIRCUIT_CONFIG
  /\ retryConfig = HarnessRetryConfig

(* generateResponse up to its first await: rejected by the breaker, or the *)
(* first request is sent.                                                  *)
GenerateResponseCore(p) ==
  /\ ExecuteCore(p)
  /\ thrown' = [thrown EXCEPT ![p] =
                  IF IsError(result'[p]) THEN generateResponseCatch(result'[p]) ELSE @]
  /\ llmService' = IF pc'[p] = "inflight"
                   THEN invokeModel(llmService, appConfig)
                   ELSE llmService
  /\ UNCHANGED <<appConfig, chunker>>

GenerateResponse(p) ==
  /\ started < MaxCalls
  /\ GenerateResponseCore(p)
  /\ UNCHANGED <<query, searchResults>>

(* The backoff timer fired: the request is sent again.                     *)
GenerateResponseRetries(p) ==
  /\ WakeCore(p)
  /\ llmService' = invokeModel(llmService, appConfig)
  /\ UNCHANGED <<query, searchResults, appConfig, chunker>>

NextLLM ==
  \/ GenerateResponse(1)
  \/ ServiceCallSucceeds(1)
  \/ \E e \in ServiceErrorInputs("llm") : ServiceCallFails(1, e)
  \/ GenerateResponseRetries(1)
  \/ Return(1)
  \/ Tick

SpecLLM == InitLLM /\ [][NextLLM]_vars

(***************************************************************************)
(* Query specification: processQuery calls are made one after the other on *)
(* the one ChatService of the chat route, under every relevance threshold  *)
(* of QueryConfigs.  Each action is the completion of one await together   *)
(* with the synchronous code up to the next one.  The results of a search  *)
(* all have texts of the same shape.                                       *)
(***************************************************************************)
ScoreValues == {0, 74, 75, One}

QueryConfigs ==
  [relevanceThreshold : {0, 75, One}, provider : {DefaultAppConfig.provider},
   temperature : {DefaultAppConfig.temperature}]

QueryTextShapes == [chars : {0, 1000, 5999}, space : {0, 1}]
QueryShapes == {[i \in 1..n |-> t] : n \in 0..topK, t \in QueryTextShapes}

(* A projectId or message is the empty string, blanks only, or has text.  *)
RequestStrings == {Text(0, 0, 0), Text(0, 0, 1), Text(0, 7, 0)}
Requests == [projectId : RequestStrings, message : RequestStrings]

isBlank_EmptyOnly(s) == TextLength(s) = 0

(* !s || !s.trim()                                                         *)
isBlank(s) == TextLength(s) = 0 \/ TextLength(trim(s)) = 0

InitQuery ==
  /\ InitDocs
  /\ InitBreaker
  /\ InitChatService
  /\ appConfig \in QueryConfigs
  /\ service = "llm"
  /\ config \in CircuitConfigs
  /\ retryConfig = HarnessRetryConfig

QueryThrows(type, msg) ==
  [query EXCEPT !.pc = "done", !.outcome = "threw", !.err = DocError(type, msg)]

(* processQuery up to its first await: validation, then getProject.        *)
ProcessQuery(request) ==
  /\ query.pc = "idle"
  /\ pc[1] = "idle"
  /\ started < MaxCalls
  /\ query' = CASE isBlank(request.projectId) ->
                    [QueryThrows("ValidationError", "Project ID is required")
                       EXCEPT !.request = request]
                 [] isBlank(request.message) ->
                    [QueryThrows("ValidationError", "Message is required")
                       EXCEPT !.request = request]
                 [] OTHER -> [query EXCEPT !.pc = "getProject",
                                           !.request = request,
                                           !.called = @ \cup {"getProject"}]
  /\ UNCHANGED <<searchResults, appConfig, chunker, llmService, harnessVars, docVars>>

(* getProject settled: a NotFoundError is replaced by a new one, any other *)
(* error is rethrown as it is; otherwise generateEmbedding is called.      *)
GetProjectResolves(outcome) ==
  /\ query.pc = "getProject"
  /\ query' = CASE outcome = "notFound" ->
                    QueryThrows("NotFoundError", "Project not found")
                 [] outcome = "failed" ->
                    QueryThrows("DatabaseError", "Failed to retrieve project")
                 [] OTHER -> [query EXCEPT !.pc = "embedding",
                                !.called = @ \cup {"generateEmbedding"}]
  /\ UNCHANGED <<searchResults, appConfig, chunker, llmService, harnessVars, docVars>>

(* generateEmbedding settled; similaritySearch is called.                  *)
EmbeddingResolves(ok) ==
  /\ query.pc = "embedding"
  /\ query' = IF ok THEN [query EXCEPT !.pc = "search",
                                        !.called = @ \cup {"similaritySearch"}]
              ELSE QueryThrows("ServiceUnavailableError",
                               "Unable to process query embedding")
  /\ UNCHANGED <<searchResults, appConfig, chunker, llmService, harnessVars, docVars>>

(* similaritySearch settled.  With results: the relevance gate, and behind *)
(* it assembleContext, the prompts and generateResponse up to its first    *)
(* await.                                                                  *)
SearchResolves(ok, top, shape) ==
  /\ query.pc = "search"
  /\ IF ~ok
     THEN /\ query' = QueryThrows("ServiceUnavailableError",
                                  "Unable to perform similarity search")
          /\ UNCHANGED <<searchResults, appConfig, chunker, llmService, harnessVars, docVars>>
     ELSE LET results == MakeResults(top, shape)
          IN  /\ searchResults' = results
              /\ IF highestScore(results) < relevanceThreshold(appConfig)
                 THEN /\ query' = [query EXCEPT !.pc = "done", !.searched = TRUE,
                                      !.outcome = "returned", !.answer = Refusal,
                                      !.sourceCount = 0]
                      /\ UNCHANGED <<appConfig, chunker, llmService, harnessVars, docVars>>
                 ELSE /\ query' = [query EXCEPT !.pc = "generate", !.searched = TRUE,
                                      !.called = @ \cup {"generateResponse"},
                                      !.context = assembleContext(results),
                                      !.includedChunks =
                                         assembleLoop(results, 1, <<>>, 0).includedChunks]
                      /\ GenerateResponseCore(1)

(* The request to the language model resolved with content; the wrapped    *)
(* function returns its text.                                              *)
GenerateAttemptSucceeds(content) ==
  /\ query.pc = "generate"
  /\ SucceedCore(1)
  /\ query' = [query EXCEPT !.llmContent = content,
                            !.response = responseText(content)]
  /\ UNCHANGED <<thrown, searchResults, appConfig, chunker, llmService>>

(* generateResponse settled: its text becomes the answer, or its error a   *)
(* ServiceUnavailableError.                                                *)
GenerateSettles ==
  /\ query.pc = "generate"
  /\ pc[1] = "done"
  /\ query' = IF result[1].type = "ok"
              THEN [query EXCEPT !.pc = "done", !.outcome = "returned",
                                 !.llmInvocations = calls[1],
                                 !.failedAttempts = Len(caught[1]),
                                 !.answer = query.response,
                                 !.sourceCount = Len(searchResults)]
              ELSE [QueryThrows("ServiceUnavailableError",
                                "Unable to generate response")
                      EXCEPT !.llmInvocations = calls[1],
                             !.failedAttempts = Len(caught[1])]
  /\ ReturnCore(1)
  /\ UNCHANGED <<searchResults, appConfig, chunker, llmService>>

(* The route has sent the response; the next request may come.             *)
QueryReturn ==
  /\ query.pc = "done"
  /\ query' = NoQuery
  /\ searchResults' = <<>>
  /\ UNCHANGED <<appConfig, chunker, llmService, harnessVars, docVars>>

NextQuery ==
  \/ \E request \in Requests : ProcessQuery(request)
  \/ \E outcome \in {"found", "notFound", "failed"} : GetProjectResolves(outcome)
  \/ \E ok \in BOOLEAN : EmbeddingResolves(ok)
  \/ /\ query.pc = "search"
     /\ \E ok \in BOOLEAN, top \in ScoreValues, shape \in QueryShapes :
          SearchResolves(ok, top, shape)
  \/ \E content \in LlmContents : GenerateAttemptSucceeds(content)
  \/ \E e \in ServiceErrorInputs("llm") : ServiceCallFails(1, e)
  \/ GenerateResponseRetries(1)
  \/ GenerateSettles
  \/ QueryReturn
  \/ Tick

SpecQuery == InitQuery /\ [][NextQuery]_vars

(***************************************************************************)
(* The query specification with clients that may abandon the request       *)
(* while generateResponse waits between two attempts.  Neither the route   *)
(* nor processQuery nor withRetry looks at the request's signal, so        *)
(* nothing else changes.                                                   *)
(***************************************************************************)
RequestAborted ==
  /\ query.pc = "generate"
  /\ pc[1] = "sleeping"
  /\ ~query.aborted
  /\ query' = [query EXCEPT !.aborted = TRUE]
  /\ UNCHANGED <<searchResults, appConfig, chunker, llmService, harnessVars, docVars>>

NextAbort ==
  \/ NextQuery
  \/ RequestAborted

SpecAbort == InitQuery /\ [][NextAbort]_vars

(***************************************************************************)
(* VectorStore.similaritySearch behind its await: the rows of the          *)
(* collection.query response become SearchResults, which are sorted.  A    *)
(* row is its position in the response, its document and its distance in   *)
(* hundredths, which may be missing.                                       *)
(***************************************************************************)
Distances == {0, 30, One}

QueryRows == [distance : Distances, hasDistance : BOOLEAN]

(* collection.query({nResults}) resolves with at most nResults rows.       *)
QueryResponses(nResults) == UNION {[1..n -> QueryRows] : n \in 0..nResults}

(* 1 - (results.distances?.[0]?.[i] || 0)                                  *)
rowScore(row) == One - (IF row.hasDistance THEN row.distance ELSE 0)

(* The loop over results.ids[0] pushing { id, text, score, metadata }.     *)
toSearchResults(rows) ==
  [i \in 1..Len(rows) |->
     [id |-> i, text |-> Text(i, 1000, 0), score |-> rowScore(rows[i])]]

comesBefore_Strict(a, b) == b.score - a.score < 0

(* The comparator (a, b) => b.score - a.score of a stable sort: a, which   *)
(* stood before b, stays before b unless the comparator is positive.       *)
comesBefore(a, b) == b.score - a.score <= 0

(* Array.prototype.sort, which is stable: each element in turn is placed   *)
(* behind the last of the sorted ones it does not have to precede.         *)
sortInsert(sorted, x) ==
  LET keep == {i \in 1..Len(sorted) : comesBefore(sorted[i], x)}
      k == IF keep = {} THEN 0 ELSE CHOOSE i \in keep : \A j \in keep : j <= i
  IN  SubSeq(sorted, 1, k) \o <<x>> \o SubSeq(sorted, k + 1, Len(sorted))

RECURSIVE sort(_)
sort(list) ==
  IF list = <<>> THEN <<>>
  ELSE sortInsert(sort(SubSeq(list, 1, Len(list) - 1)), list[Len(list)])

similaritySearch(rows) == sort(toSearchResults(rows))

InitSearch ==
  /\ InitDocs
  /\ InitBreaker
  /\ searchResults = <<>>
  /\ llmService = InitialLLMService
  /\ appConfig = DefaultAppConfig
  /\ chunker = NoChunker
  /\ \E rows \in QueryResponses(topK) : query = [NoQuery EXCEPT !.queryResult = rows]
  /\ service = "vectorStore"
  /\ config = DEFAULT_CIRCUIT_CONFIG
  /\ retryConfig = DEFAULT_RETRY_CONFIG

(* collection.query resolved; its rows are transformed, sorted, returned.  *)
SimilaritySearchResolves ==
  /\ query.pc = "idle"
  /\ searchResults' = similaritySearch(query.queryResult)
  /\ query' = [query EXCEPT !.pc = "done", !.searched = TRUE,
                            !.called = {"similaritySearch"}]
  /\ UNCHANGED <<appConfig, chunker, llmService, harnessVars, docVars>>

NextSearch == SimilaritySearchResolves

SpecSearch == InitSearch /\ [][NextSearch]_vars

(***************************************************************************)
(* Chunking specification: one chunkText call on each text and metadata.   *)
(***************************************************************************)
InitChunk ==
  /\ InitDocs
  /\ InitBreaker
  /\ query = NoQuery
  /\ searchResults = <<>>
  /\ llmService = InitialLLMService
  /\ appConfig = DefaultAppConfig
  /\ \E text \in TextLengths, metadata \in ChunkMetadatas :
       chunker = [NoChunker EXCEPT !.text = text, !.metadata = metadata]
  /\ service = "none"
  /\ config = DEFAULT_CIRCUIT_CONFIG
  /\ retryConfig = DEFAULT_RETRY_CONFIG

(* chunkText: splitText resolved and the chunks are returned.              *)
ChunkText ==
  /\ chunker.pc = "idle"
  /\ chunker' = [chunker EXCEPT !.pc = "done",
                                !.chunks = chunkText(chunker.text, chunker.metadata)]
  /\ UNCHANGED <<query, searchResults, appConfig, llmService, harnessVars, docVars>>

NextChunk == ChunkText

SpecChunk == InitChunk /\ [][NextChunk]_vars

(***************************************************************************)
(* Projects specification: the similarity searches of two projects go      *)
(* through the one VectorStore of the ChatService and its one breaker.     *)
(* Caller 1 asks about a project whose collection exists, every other      *)
(* caller about a project that has none, so that getCollection rejects.    *)
(* Time moves from one pending timer to the next.                          *)
(***************************************************************************)
projectOf(p) == IF p = 1 THEN "p1" ELSE "p2"

hasCollection(projectId) == projectId = "p1"

CollectionMissing == [type |-> "Error", msg |-> "collection does not exist"]

InitProjects ==
  /\ InitCommon
  /\ service = "vectorStore"
  /\ config = DEFAULT_CIRCUIT_CONFIG
  /\ retryConfig = DEFAULT_RETRY_CONFIG

(* similaritySearch up to its first await.                                 *)
SimilaritySearch(p) ==
  /\ started < MaxRequests
  /\ ExecuteCore(p)
  /\ UNCHANGED chatVars
  /\ thrown' = [thrown EXCEPT ![p] =
                  IF IsError(result'[p]) THEN vectorStoreCatch(result'[p]) ELSE @]

(* getCollection and collection.query resolved.                            *)
SearchSucceeds(p) ==
  /\ hasCollection(projectOf(p))
  /\ ServiceCallSucceeds(p)

(* getCollection rejected: the project has no collection.                  *)
SearchFails(p) ==
  /\ ~hasCollection(projectOf(p))
  /\ ServiceCallFails(p, CollectionMissing)

TimerTick ==
  LET pending == {wakeAt[p] : p \in {q \in Callers : pc[q] = "sleeping" /\ wakeAt[q] > now}}
  IN  /\ pending # {}
      /\ now' = CHOOSE t \in pending : \A u \in pending : t <= u
      /\ UNCHANGED <<docVars, chatVars, breakerVars, service, config, retryConfig,
                     callVars, thrown, started, historyVars>>

NextProjects ==
  \/ \E p \in Callers : SimilaritySearch(p)
  \/ \E p \in Callers : SearchSucceeds(p)
  \/ \E p \in Callers : SearchFails(p)
  \/ \E p \in Callers : Wake(p)
  \/ \E p \in Callers : Return(p)
  \/ TimerTick

SpecProjects == InitProjects /\ [][NextProjects]_vars

(***************************************************************************)
(* Vocabulary of the properties                                            *)
(***************************************************************************)
InProgress(p) == pc[p] \in {"inflight", "sleeping"}

(* Caller p begins an execute() call in this step.                         *)
Begins(p) == pc[p] = "idle" /\ pc'[p] # "idle"

(* The call of caller p ends in this step with onSuccess / onFailure.      *)
Succeeds(p) == pc[p] = "inflight" /\ pc'[p] = "done" /\ result'[p].type = "ok"
Fails(p) == pc[p] = "inflight" /\ pc'[p] = "done" /\ IsError(result'[p])

(* The wrapped operation is invoked on behalf of caller p in this step.    *)
Invoked(p) == calls'[p] > calls[p]

(***************************************************************************)
(* C1: a Closed breaker stays Closed while fewer than failureThreshold     *)
(* executions have failed; the failure that brings the failure count to    *)
(* failureThreshold opens it and sets nextAttemptTime to now +             *)
(* resetTimeout.                                                           *)
(***************************************************************************)
C1_Step ==
  /\ (state = CLOSED /\ stats'.failures < config.failureThreshold) => state' = CLOSED
  /\ (state = CLOSED /\ stats.failures < config.failureThreshold
        /\ stats'.failures = config.failureThreshold)
       => (state' = OPEN /\ nextAttemptTime' = now + config.resetTimeout)

C1_OpensAtThreshold ==
  /\ [](stats.failures < config.failureThreshold => state = CLOSED)
  /\ [][C1_Step]_vars

C1_Witness ==
  /\ state = OPEN
  /\ config.failureThreshold >= 2
  /\ stats.failures = config.failureThreshold
  /\ nextAttemptTime = now + config.resetTimeout

(***************************************************************************)
(* C2: an execute() call made while the breaker is Open and                *)
(* now < nextAttemptTime is rejected with the circuit-open error and the   *)
(* wrapped operation is not invoked.                                       *)
(***************************************************************************)
C2_Step ==
  \A p \in Callers :
    (Begins(p) /\ state = OPEN /\ now < nextAttemptTime)
      => /\ pc'[p] = "done"
         /\ result'[p] = CircuitOpenError(p)
         /\ calls'[p] = 0
         /\ \A q \in Callers : ~Invoked(q)

C2_OpenRejects == [][C2_Step]_vars

C2_Witness ==
  \E p \in Callers :
    /\ pc[p] = "done"
    /\ admitted[p] = "rejected"
    /\ state = OPEN
    /\ calls[p] = 0

(***************************************************************************)
(* C3: the outcome of the HalfOpen trial call decides the state: success   *)
(* closes the breaker with failure count 0, failure re-opens it with       *)
(* nextAttemptTime = time of the failure + resetTimeout.                   *)
(***************************************************************************)
C3_Step ==
  \A p \in Callers :
    admitted[p] = "trial" =>
      /\ Succeeds(p) => (state' = CLOSED /\ stats'.failures = 0)
      /\ Fails(p) => (state' = OPEN /\ nextAttemptTime' = now + config.resetTimeout)

C3_TrialDecides == [][C3_Step]_vars

(***************************************************************************)
(* C4: while a HalfOpen trial call is in progress no other call reaches    *)
(* the wrapped operation.                                                  *)
(***************************************************************************)
C4_Step ==
  \A q \in Callers :
    (admitted[q] = "trial" /\ InProgress(q))
      => \A p \in Callers \ {q} : ~Invoked(p)

C4_SingleTrial == [][C4_Step]_vars

(***************************************************************************)
(* C5: while the breaker is Closed every successful execute() sets the     *)
(* failure count to 0.                                                     *)
(***************************************************************************)
C5_Step ==
  \A p \in Callers :
    (state = CLOSED /\ Succeeds(p)) => stats'.failures = 0

C5_SuccessResets == [][C5_Step]_vars

(***************************************************************************)
(* C6: with failureThreshold = 5 and an embedding collaborator that always *)
(* fails, each of the first five requests reaches the collaborator and     *)
(* fails; a request made after the fifth failure and before resetTimeout   *)
(* has elapsed is rejected and the collaborator is not invoked.            *)
(***************************************************************************)
C6_Step ==
  config.failureThreshold = 5 =>
    \A p \in Callers :
      /\ (Begins(p) /\ started < 5) => (Invoked(p) /\ pc'[p] = "inflight")
      /\ (pc[p] = "inflight" /\ pc'[p] = "done") => IsError(result'[p])
      /\ (Begins(p) /\ failedCalls >= 5 /\ now < fifthFailureAt + config.resetTimeout)
           => /\ pc'[p] = "done"
              /\ result'[p] = CircuitOpenError(p)
              /\ calls'[p] = 0
              /\ \A q \in Callers : ~Invoked(q)

C6_SixthRejected == [][C6_Step]_vars

C6_Witness ==
  \E p \in Callers :
    /\ pc[p] = "done"
    /\ admitted[p] = "rejected"
    /\ calls[p] = 0
    /\ failedCalls = 5
    /\ started >= 6
    /\ now < fifthFailureAt + config.resetTimeout

(***************************************************************************)
(* C7: the call admitted once now >= nextAttemptTime runs as the trial     *)
(* with the breaker HalfOpen for as long as the call lasts.                *)
(***************************************************************************)
C7_HalfOpenDuringTrial ==
  \A p \in Callers :
    (admitted[p] = "trial" /\ InProgress(p)) => state = HALF_OPEN

(***************************************************************************)
(* C8: when the first attempt fails with a ValidationError or a            *)
(* NotFoundError, withRetry has invoked the operation once, has not waited *)
(* and surfaces that error.                                                *)
(***************************************************************************)
C8_NonRetryableOnce ==
  \A p \in Callers :
    (Len(caught[p]) >= 1 /\ caught[p][1].type \in {"ValidationError", "NotFoundError"})
      => /\ pc[p] = "done"
         /\ calls[p] = 1
         /\ waits[p] = <<>>
         /\ result[p] = caught[p][1]

C8_Witness ==
  \E p \in Callers :
    /\ pc[p] = "done"
    /\ retryConfig.maxAttempts >= 2
    /\ Len(caught[p]) = 1
    /\ caught[p][1].type = "NotFoundError"
    /\ result[p] = caught[p][1]

(***************************************************************************)
(* C9: withRetry invokes the operation at most maxAttempts times, exactly  *)
(* maxAttempts times when every attempt fails with a retryable error and   *)
(* exactly k times when attempt k is the first to succeed; the wait before *)
(* retry i is min(baseDelay * backoffFactor^(i-1), maxDelay); the waits    *)
(* never decrease and never exceed maxDelay.                               *)
(***************************************************************************)
AllRetryable(es) == \A i \in DOMAIN es : es[i].type \notin {"ValidationError", "NotFoundError"}

C9_BoundedBackoff ==
  \A p \in Callers :
    /\ calls[p] <= retryConfig.maxAttempts
    /\ (pc[p] = "done" /\ IsError(result[p]) /\ calls[p] >= 1 /\ AllRetryable(caught[p]))
         => calls[p] = retryConfig.maxAttempts
    /\ (pc[p] = "done" /\ result[p].type = "ok") => calls[p] = Len(caught[p]) + 1
    /\ calls[p] >= 1 =>
         Len(waits[p]) = (IF pc[p] = "sleeping" THEN calls[p] ELSE calls[p] - 1)
    /\ \A i \in DOMAIN waits[p] :
         /\ waits[p][i] =
              Min(retryConfig.baseDelay * Pow(retryConfig.backoffFactor, i - 1),
                  retryConfig.maxDelay)
         /\ waits[p][i] <= retryConfig.maxDelay
         /\ i > 1 => waits[p][i - 1] <= waits[p][i]

C9_Witness ==
  \E p \in Callers :
    /\ pc[p] = "done"
    /\ IsError(result[p])
    /\ calls[p] = retryConfig.maxAttempts
    /\ Len(waits[p]) >= 2
    /\ retryConfig.baseDelay * retryConfig.backoffFactor > retryConfig.maxDelay
    /\ waits[p][2] = retryConfig.maxDelay

(***************************************************************************)
(* C10: when every attempt of a call has failed, the call throws an error, *)
(* and it is the very error object the last attempt raised.                *)
(***************************************************************************)
C10_LastErrorSurfaced ==
  \A p \in Callers :
    (pc[p] = "done" /\ calls[p] >= 1 /\ Len(caught[p]) = calls[p])
      => /\ IsError(result[p])
         /\ result[p] = caught[p][calls[p]]

C10_Witness ==
  \E p \in Callers :
    /\ pc[p] = "done"
    /\ Len(caught[p]) >= 2
    /\ result[p] = caught[p][Len(caught[p])]
    /\ result[p] # caught[p][1]

(***************************************************************************)
(* C11: one withRetryAndCircuitBreaker call records exactly one outcome on *)
(* the breaker however many attempts it made: a failed attempt that is     *)
(* retried leaves the breaker untouched, the failure count rises by 1      *)
(* exactly when a call ends with its last attempt failed (attempts         *)
(* exhausted or a non-retryable error), and a call that succeeds after     *)
(* failed attempts records one success and no failure.                     *)
(***************************************************************************)
C11_Step ==
  /\ \A p \in Callers :
       /\ (pc[p] = "inflight" /\ pc'[p] = "sleeping") => UNCHANGED breakerVars
       /\ Fails(p) => /\ stats'.failures = stats.failures + 1
                      /\ stats'.successes = stats.successes
       /\ Succeeds(p) => /\ stats'.successes = stats.successes + 1
                         /\ stats'.failures <= stats.failures
  /\ stats'.failures > stats.failures =>
       \E p \in Callers :
         /\ Fails(p)
         /\ \/ calls[p] = retryConfig.maxAttempts
            \/ ~shouldRetry(caught'[p][Len(caught'[p])])
  /\ stats'.successes > stats.successes => \E p \in Callers : Succeeds(p)

C11_OneOutcomePerCall == [][C11_Step]_vars

C11_Witness ==
  \E p \in Callers :
    /\ pc[p] = "done"
    /\ result[p].type = "ok"
    /\ Len(caught[p]) >= 1
    /\ calls[p] = Len(caught[p]) + 1
    /\ stats = [failures |-> 0, successes |-> 1]

(***************************************************************************)
(* C12: a call made while the breaker is Open and now < nextAttemptTime    *)
(* ends at once: the operation is not invoked, no backoff wait is made,    *)
(* state, stats and nextAttemptTime are left as they were, and the         *)
(* embedding, vector-store and LLM services throw ServiceUnavailableError  *)
(* to their caller.                                                        *)
(***************************************************************************)
C12_Step ==
  \A p \in Callers :
    (Begins(p) /\ state = OPEN /\ now < nextAttemptTime)
      => /\ pc'[p] = "done"
         /\ calls'[p] = 0
         /\ waits'[p] = <<>>
         /\ \A q \in Callers : ~Invoked(q)
         /\ UNCHANGED breakerVars
         /\ thrown'[p].type = "ServiceUnavailableError"

C12_RejectionTerminal ==
  /\ [](\A p \in Callers :
          admitted[p] = "rejected"
            => /\ pc[p] = "done"
               /\ calls[p] = 0
               /\ waits[p] = <<>>
               /\ thrown[p].type = "ServiceUnavailableError")
  /\ [][C12_Step]_vars

C12_Witness ==
  \E p \in Callers :
    /\ service = "llm"
    /\ admitted[p] = "rejected"
    /\ pc[p] = "done"
    /\ state = OPEN
    /\ now < nextAttemptTime
    /\ thrown[p].type = "ServiceUnavailableError"

(***************************************************************************)
(* C13: whatever processDocument calls are made, repeated and concurrent   *)
(* ones for the same document included, the persisted status of a document *)
(* only moves pending -> processing -> ready or failed, and a status of    *)
(* ready or failed is never changed by a later write.                      *)
(***************************************************************************)
StatusMoveAllowed(from, to) ==
  \/ to = from
  \/ from = "absent" /\ to = "pending"
  \/ from = "pending" /\ to = "processing"
  \/ from = "processing" /\ to \in {"ready", "failed"}

C13_Step == \A d \in DocIds : StatusMoveAllowed(docs[d].status, docs'[d].status)

C13_StatusMonotonic == [][C13_Step]_vars

(***************************************************************************)
(* C14: when the extract, embed or store stage of a processDocument run    *)
(* fails, the run goes to its catch blocks only and the document ends with *)
(* status failed; after an extraction failure the chunker, the embedding   *)
(* collaborator and the vector store have been called zero times, after an *)
(* embedding failure the vector store has been called zero times.          *)
(***************************************************************************)
C14_FailureStops ==
  \A r \in Runs :
    run[r].failedStage # "none" =>
      /\ run[r].pc \in {"extractFailedWrite", "embedFailedWrite",
                        "storeFailedWrite", "catchFind", "done"}
      /\ run[r].pc \in {"catchFind", "done"} => docs[run[r].doc].status = "failed"
      /\ run[r].failedStage = "extract" =>
           /\ run[r].chunkCalls = 0
           /\ run[r].embedCalls = 0
           /\ run[r].storeCalls = 0
      /\ run[r].failedStage = "embed" => run[r].storeCalls = 0

C14_Witness ==
  \E r \in Runs :
    /\ run[r].pc = "done"
    /\ run[r].failedStage = "embed"
    /\ run[r].embedCalls = 1
    /\ run[r].storeCalls = 0
    /\ docs[run[r].doc].status = "failed"
    /\ statusLog[run[r].doc] = <<"pending", "processing", "failed">>

(***************************************************************************)
(* C15: when the chunker yields zero chunks, processDocument sets the      *)
(* status to failed with the message "No text chunks generated from        *)
(* document" and returns without throwing; the embedding collaborator and  *)
(* the vector store are not called.                                        *)
(***************************************************************************)
C15_ZeroChunks ==
  \A r \in Runs :
    (run[r].chunkCalls = 1 /\ run[r].pc # "chunk" /\ docs[run[r].doc].nChunks = 0)
      => /\ run[r].pc \in {"noChunksWrite", "done"}
         /\ run[r].embedCalls = 0
         /\ run[r].storeCalls = 0
         /\ run[r].pc = "done" =>
              /\ run[r].outcome = "returned"
              /\ docs[run[r].doc].status = "failed"
              /\ docs[run[r].doc].errorMessage = noChunksMessage
              /\ run[r].failedWrites = 1

C15_Witness ==
  \E r \in Runs :
    /\ run[r].pc = "done"
    /\ run[r].chunkCalls = 1
    /\ docs[run[r].doc].nChunks = 0
    /\ run[r].outcome = "returned"
    /\ docs[run[r].doc].errorMessage = noChunksMessage

(***************************************************************************)
(* C16: a document uploaded through the upload endpoint whose text yields  *)
(* at least one chunk, and for which no extractor, embedding or vector     *)
(* store call fails, has had the statuses pending, processing, ready, in   *)
(* this order, when its processing ends.                                   *)
(***************************************************************************)
C16_UploadEndsReady ==
  \A r \in Runs :
    (run[r].pc = "done" /\ docs[run[r].doc].nChunks >= 1
        /\ run[r].failedCall = "none")
      => statusLog[run[r].doc] = <<"pending", "processing", "ready">>

(***************************************************************************)
(* C17: processDocument on a document id that has no row throws            *)
(* NotFoundError; it makes no status write and never calls the extractor,  *)
(* the chunker, the embedding collaborator or the vector store.            *)
(***************************************************************************)
C17_MissingDocument ==
  \A r \in Runs :
    (run[r].pc \notin {"idle", "find"} /\ docs[run[r].doc].status = "absent")
      => /\ run[r].pc \in {"catchFind", "done"}
         /\ run[r].err.type = "NotFoundError"
         /\ run[r].pc = "done" => run[r].outcome = "threw"
         /\ run[r].statusWrites = 0
         /\ statusLog[run[r].doc] = <<>>
         /\ run[r].extractCalls = 0
         /\ run[r].chunkCalls = 0
         /\ run[r].embedCalls = 0
         /\ run[r].storeCalls = 0

C17_Witness ==
  \E r \in Runs :
    /\ run[r].pc = "done"
    /\ docs[run[r].doc].status = "absent"
    /\ run[r].outcome = "threw"
    /\ run[r].err.type = "NotFoundError"
    /\ run[r].statusWrites = 0

(***************************************************************************)
(* C18: a processDocument run in which the extract, embed or store stage   *)
(* fails writes status failed exactly once, and the stored error message   *)
(* names that stage: text extraction, embedding generation or vector       *)
(* storage.                                                                *)
(***************************************************************************)
StageMessage(stage) ==
  CASE stage = "extract" -> extractFailedMessage
    [] stage = "embed" -> embedFailedMessage
    [] stage = "store" -> storeFailedMessage

C19_OnlyNotFoundThrown ==
  \A r \in Runs :
    run[r].pc = "done" =>
      /\ run[r].outcome = "threw" =>
           (run[r].err.type = "NotFoundError" /\ run[r].failedStage = "none")
      /\ run[r].failedStage # "none" =>
           (run[r].outcome = "returned" /\ docs[run[r].doc].status = "failed")

(***************************************************************************)
(* C20: processDocument and processQuery reach the embedding provider, the *)
(* vector store and the language model only through the dependency's      *)
(* circuit breaker: while that breaker is Open and now < nextAttemptTime,  *)
(* no step of a query or of a processDocument run invokes the dependency.  *)
(***************************************************************************)
C20_Step ==
  (state = OPEN /\ now < nextAttemptTime) =>
    /\ \A p \in Callers : ~Invoked(p)
    /\ \A r \in Runs :
         /\ service = "embedding" => run'[r].embedCalls = run[r].embedCalls
         /\ service = "vectorStore" => run'[r].storeCalls = run[r].storeCalls

C20_BreakerGuardsEveryCall == [][C20_Step]_vars

(***************************************************************************)
(* C21: when processDocument runs for documents of one project overlap     *)
(* and the project's collection does not exist yet, the run that loses the *)
(* creation race (its createCollection is answered "already exists")       *)
(* goes on to store its chunks: that answer never makes its store stage    *)
(* fail, and never leaves its document with status failed.                 *)
(***************************************************************************)
C21_CreationRaceTolerated ==
  \A r \in Runs :
    run[r].storeError = "alreadyExists" =>
      /\ run[r].failedStage # "store"
      /\ docs[run[r].doc].status # "failed"

(***************************************************************************)
(* C22: the store stage writes the chunks under ids built from the         *)
(* document id and the chunk index so that storing is idempotent: when a   *)
(* document's chunk ids are already in the collection, storing them again  *)
(* succeeds; the ids held never make the store stage fail.                 *)
(***************************************************************************)
C22_RestoreSucceeds ==
  \A r \in Runs : run[r].storeError # "duplicateIds"

(***************************************************************************)
(* The non-blank trimmed texts of the first k results, in the given order,  *)
(* with a blank line between neighbours.                                   *)
(***************************************************************************)
RECURSIVE JoinTrimmed(_, _)
JoinTrimmed(results, k) ==
  IF k = 0 THEN <<>>
  ELSE LET before == JoinTrimmed(results, k - 1)
           text == [results[k].text EXCEPT !.space = 0]
       IN  IF text.chars = 0 THEN before
           ELSE IF before = <<>> THEN <<text>>
           ELSE before \o <<BlankLine, text>>

C27_EmptyWhenNothingFits ==
  (query.pc = "assembled" /\ query.includedChunks = 0) => query.context = <<>>

(***************************************************************************)
(* C29: for every LLM temperature the configuration accepts and for both   *)
(* providers, the temperature of every request made to the language model  *)
(* is at most 0.3.                                                         *)
(***************************************************************************)
C29_TemperatureCapped ==
  \A t \in llmService.passed : t <= maxTemperature

(* A request was retried under a configured temperature above 0.3.        *)
C29_Witness ==
  /\ appConfig.temperature > maxTemperature
  /\ appConfig.provider = "local"
  /\ calls[1] = 2
  /\ llmService.passed = {maxTemperature}

(***************************************************************************)
(* C23: whenever the search returns results whose top score is below       *)
(* relevanceThreshold, processQuery returns exactly the refusal            *)
(* {answer: "I don't know", sourceCount: 0} and the language model is not  *)
(* invoked: no generateResponse call is made and no request is sent.       *)
(***************************************************************************)
C23_BelowThresholdRefused ==
  (/\ query.searched
   /\ Len(searchResults) > 0
   /\ searchResults[1].score < appConfig.relevanceThreshold) =>
    /\ query.pc = "done"
    /\ query.outcome = "returned"
    /\ query.answer = Refusal
    /\ query.sourceCount = 0
    /\ query.llmInvocations = 0
    /\ pc[1] = "idle"
    /\ calls[1] = 0

(* Five chunks that fit, scored just below the threshold, are refused, and *)
(* no request has been sent to the language model so far.                  *)
C23_Witness ==
  /\ query.pc = "done"
  /\ query.answer = Refusal
  /\ Len(searchResults) = topK
  /\ searchResults[1].score = 74
  /\ searchResults[1].text.chars = 1000
  /\ appConfig.relevanceThreshold = 75
  /\ llmService.passed = {}

(***************************************************************************)
(* C24: whenever the search returns no results, processQuery returns the   *)
(* refusal {answer: "I don't know", sourceCount: 0} without invoking the   *)
(* language model, under every relevance threshold the configuration       *)
(* accepts.                                                                *)
(***************************************************************************)
C24_NoResultsRefused ==
  (query.searched /\ Len(searchResults) = 0) =>
    /\ query.pc = "done"
    /\ query.outcome = "returned"
    /\ query.answer = Refusal
    /\ query.sourceCount = 0
    /\ query.llmInvocations = 0
    /\ pc[1] = "idle"
    /\ calls[1] = 0

(* The query passed the relevance gate: the score the gate looks at (the   *)
(* top score, 0 without results) is not below the threshold.               *)
GatePassed ==
  /\ query.searched
  /\ (IF Len(searchResults) > 0 THEN searchResults[1].score ELSE 0)
        >= appConfig.relevanceThreshold

(* The number of chunk texts in a string.                                  *)
ChunkCount(str) == Cardinality({j \in 1..Len(str) : str[j].chunk # 0})

(***************************************************************************)
(* C25: for every query that passes the relevance gate and returns, the    *)
(* sourceCount returned equals the number of chunks concatenated into the  *)
(* assembled context.                                                      *)
(***************************************************************************)
C25_SourceCountIsIncluded ==
  (GatePassed /\ query.pc = "done" /\ query.outcome = "returned") =>
    query.sourceCount = ChunkCount(query.context)

(* Five chunks with text that fit the budget together, scored at or above  *)
(* the threshold, and the query is over.                                   *)
FiveChunksFit ==
  /\ GatePassed
  /\ query.pc = "done"
  /\ Len(searchResults) = topK
  /\ \A i \in 1..topK : searchResults[i].text.chars > 0
  /\ StringLength(JoinTrimmed(searchResults, topK)) <= maxContextChars

BlankString(s) == s.chars = 0

BlankRequest(request) ==
  BlankString(request.projectId) \/ BlankString(request.message)

C31_ValidationBeforeCollaborators ==
  (query.pc # "idle" /\ BlankRequest(query.request)) =>
    /\ query.pc = "done"
    /\ query.outcome = "threw"
    /\ query.err.type = "ValidationError"
    /\ query.called = {}

C31_Witness ==
  /\ query.pc = "done"
  /\ query.request.projectId = Text(0, 7, 0)
  /\ query.request.message = Text(0, 0, 1)
  /\ query.err = DocError("ValidationError", "Message is required")
  /\ query.called = {}

(***************************************************************************)
(* C32: a processQuery call that threw, threw ValidationError,              *)
(* NotFoundError or ServiceUnavailableError: the failure of a collaborator  *)
(* other than project-not-found reaches the caller as                       *)
(* ServiceUnavailableError; and the stages after the failed one were not    *)
(* called.                                                                  *)
(***************************************************************************)
StagesCalledBy(stage) ==
  CASE stage = "getProject" -> {"getProject"}
    [] stage = "generateEmbedding" -> {"getProject", "generateEmbedding"}
    [] stage = "similaritySearch" ->
         {"getProject", "generateEmbedding", "similaritySearch"}
    [] OTHER -> {"getProject", "generateEmbedding", "similaritySearch",
                 "generateResponse"}

C32_FailuresSurfaceAsUnavailable ==
  query.outcome = "threw" =>
    /\ query.err.type \in
         {"ValidationError", "NotFoundError", "ServiceUnavailableError"}
    /\ query.err.type = "NotFoundError" =>
         query.called = StagesCalledBy("getProject")
    /\ query.err.msg = "Unable to process query embedding" =>
         query.called = StagesCalledBy("generateEmbedding")
    /\ query.err.msg = "Unable to perform similarity search" =>
         query.called = StagesCalledBy("similaritySearch")

(***************************************************************************)
(* C34: in the step that takes the breaker from HalfOpen to Closed, every   *)
(* statistics counter is zero afterwards, the success count as well as the  *)
(* failure count.                                                           *)
(***************************************************************************)
C34_AllCountersZeroOnClose ==
  [][(state = HALF_OPEN /\ state' = CLOSED) =>
       (stats'.failures = 0 /\ stats'.successes = 0)]_vars

(***************************************************************************)
(* C33: what similaritySearch returns for K = 5 has at most five results,   *)
(* one for each row of the store's response, in descending order of score;  *)
(* results of equal score stand in the order in which the store returned    *)
(* their rows.                                                              *)
(***************************************************************************)
C33_TopKDescendingStable ==
  query.pc = "done" =>
    /\ Len(searchResults) <= topK
    /\ {searchResults[i].id : i \in 1..Len(searchResults)} =
         1..Len(query.queryResult)
    /\ \A i, j \in 1..Len(searchResults) :
         i < j =>
           /\ searchResults[i].score >= searchResults[j].score
           /\ searchResults[i].score = searchResults[j].score =>
                searchResults[i].id < searchResults[j].id

C33_Witness ==
  /\ query.pc = "done"
  /\ Len(searchResults) = topK
  /\ searchResults[1].id = 3
  /\ searchResults[2].score = searchResults[3].score
  /\ searchResults[2].score > searchResults[4].score
  /\ ~query.queryResult[5].hasDistance

(***************************************************************************)
(* C35: once the enclosing request has been abandoned while withRetry       *)
(* waits between two attempts, the operation is not invoked again.          *)
(***************************************************************************)
C35_NoInvocationAfterAbort ==
  [][(query.aborted /\ pc[1] = "sleeping") => ~Invoked(1)]_vars

(***************************************************************************)
(* C36: the chunks chunkText returns carry the chunkIndex values 0, 1, ..., *)
(* n-1 in the order of the output, and each carries every field of the      *)
(* metadata it was given, documentId, filename and any other, unchanged;    *)
(* for the empty text it returns no chunk.                                  *)
(***************************************************************************)
C36_ChunksIndexedWithMetadata ==
  chunker.pc = "done" =>
    /\ \A i \in 1..Len(chunker.chunks) :
         /\ chunker.chunks[i].metadata.chunkIndex = i - 1
         /\ \A f \in DOMAIN chunker.metadata \ {"chunkIndex"} :
              /\ f \in DOMAIN chunker.chunks[i].metadata
              /\ chunker.chunks[i].metadata[f] = chunker.metadata[f]
    /\ chunker.text = 0 => chunker.chunks = <<>>

C36_Witness ==
  /\ chunker.pc = "done"
  /\ Len(chunker.chunks) > 2
  /\ chunker.chunks[3].metadata.chunkIndex = 2
  /\ chunker.chunks[3].metadata.documentId = "doc-2"
  /\ "pageNumber" \in DOMAIN chunker.chunks[3].metadata

(***************************************************************************)
(* C37: in every reachable state of a breaker whose failureThreshold is at  *)
(* least 1, whatever the order in which calls complete: a Closed breaker    *)
(* has counted fewer failures than failureThreshold, an Open or HalfOpen    *)
(* one at least failureThreshold.                                           *)
(***************************************************************************)
C37_StateMatchesFailureCount ==
  config.failureThreshold >= 1 =>
    /\ state = CLOSED => stats.failures < config.failureThreshold
    /\ state \in {OPEN, HALF_OPEN} => stats.failures >= config.failureThreshold

C37_Witness ==
  /\ state = CLOSED
  /\ stats.successes >= 1
  /\ \E p \in Callers : pc[p] = "done" /\ admitted[p] = "trial"
  /\ \E p \in Callers : pc[p] = "inflight" /\ admitted[p] = CLOSED

(***************************************************************************)
(* C38: while the breaker is HalfOpen, the completion, success or failure,  *)
(* of a call that was admitted while the breaker was still Closed leaves    *)
(* the breaker HalfOpen; only the trial call's outcome changes its state.   *)
(***************************************************************************)
C38_LateCompletionKeepsHalfOpen ==
  [][(/\ state = HALF_OPEN
      /\ \E p \in Callers : admitted[p] = CLOSED /\ (Succeeds(p) \/ Fails(p)))
       => state' = HALF_OPEN]_vars

(***************************************************************************)
(* C39: once processDocument has made a document of project P ready, its    *)
(* chunks are held by the collection similaritySearch queries for P, and    *)
(* ingestion, query and project deletion all give P's collection the same   *)
(* name.                                                                    *)
(***************************************************************************)
C39_OneCollectionPerProject ==
  \A d \in DocIds :
    docs[d].status = "ready" =>
      /\ \A id \in chunkIds(d) :
           [collection |-> searchCollectionName(docs[d].projectId), id |-> id]
             \in entries
      /\ collectionName(docs[d].projectId) =
           searchCollectionName(docs[d].projectId)
      /\ deleteCollectionName(docs[d].projectId) =
           searchCollectionName(docs[d].projectId)

(***************************************************************************)
(* C40: a search for the project whose collection is healthy is never       *)
(* rejected by the vector store's circuit breaker when the only failures    *)
(* were those of searches for other projects.                               *)
(***************************************************************************)
C40_HealthyProjectNotRejected ==
  \A p \in Callers :
    hasCollection(projectOf(p)) => admitted[p] # "rejected"
====
